---- MODULE Spec2Model ----
(***************************************************************************)
(* URL shortener: the Shorten / GetOriginalURL pipeline (existence filter, *)
(* cache-aside, durable store, expiration), the HTTP error mapping, and    *)
(* the sliding-window rate limiter.                                        *)
(*                                                                         *)
(* Every call to a shared collaborator (durable store, cache, rate-limit   *)
(* store) is one atomic step of the calling request; the local code that   *)
(* follows the call up to the next call belongs to the same step.  Time is *)
(* a global clock counted in ticks of 1/TicksPerSec second.                *)
(***************************************************************************)
EXTENDS Integers, Sequences, FiniteSets, TLC

VARIABLES
    now,          \* the wall clock, in ticks
    store,        \* durable store, table urls: short_code -> record
    cache,        \* cache keys "url:<code>" -> [url, exp] (exp: eviction time)
    bloomFilter,  \* per service instance: the set bits of its Bloom filter
    clicks,       \* click events dispatched so far, per short code
    pc,           \* per request slot: position in the handler ("idle": none running)
    req,          \* per request slot: arguments and locals of the running call
    ioLog,        \* per request slot: collaborator calls made by the running call
    reply,        \* the reply of the call that returned last
    issued,       \* history: short_code -> what its successful Shorten was given
    started,      \* number of requests started so far
    window,       \* rate-limit keys "ratelimit:<id>" -> [list, exp]
    lpc,          \* per limiter call slot: position in Allow
    lreq,         \* per limiter call slot: locals of the running Allow
    lres,         \* the verdict of the Allow call that returned last
    hist,         \* history: per identifier, what the returned calls decided
    lstarted,     \* number of Allow calls started so far
    inst,         \* per request slot: the service instance that serves it
    lost,         \* per instance: the codes the store held when it last restarted
    restarts,     \* number of instance restarts so far
    attempts,     \* per request slot: existence checks made by its allocation loop
    batch,        \* per request slot: the ShortenBatch call it runs, if any
    bres,         \* the last return of ShortenBatch
    missed,       \* history: the <<instance, code>> whose lookup the instance's
                  \* filter turned away while the store held the code
    emission      \* the background publish tasks: those whose request context
                  \* is done, those that ran, and what each run saw

svars == <<store, cache, bloomFilter, clicks, pc, req, ioLog, reply, issued, started>>
lvars == <<window, lpc, lreq, lres, hist, lstarted>>
evars == <<inst, lost, restarts, attempts, batch, bres, missed, emission>>
vars == <<now, store, cache, bloomFilter, clicks, pc, req, ioLog, reply, issued,
          started, window, lpc, lreq, lres, hist, lstarted,
          inst, lost, restarts, attempts, batch, bres, missed, emission>>

----------------------------------------------------------------------------
(* Bounds of the model *)

NProcs == 2
MaxOps == 3
MaxTime == 3

Procs == 1..NProcs

(* The empty store, cache or key space *)
EmptyMap == [k \in {} |-> 0]

(* The service instances of a deployment: each has a filter of its own, *)
(* all share the durable store and the cache.                           *)
Instances == {1, 2}

(* Ticks per second: the clock has sub-second resolution. *)
TicksPerSec == 2

(* Codes that Shorten may issue (as alias or as generated candidate), *)
(* and the codes a lookup may ask for.                                *)
Codes == {"x", "y"}
LookupCodes == {"x", "y", "z"}

(* Request URLs: two valid ones, one with a foreign scheme, one without *)
(* a scheme, one that url.Parse rejects.                                *)
URLs == {"http://a", "https://b", "ftp://c", "invalid-url", ":bad"}

(* expires_in, in seconds: absent, or 1 *)
ExpiresIns == {{}, {1}}

----------------------------------------------------------------------------
(* Errors: the typed domain errors of internal/errors *)

NoErr == [type |-> "nil", code |-> ""]
Invalid(code) == [type |-> "*errors.InvalidError", code |-> code]
NotFound == [type |-> "*errors.DomainNotFoundError", code |-> "ERR_NOT_FOUND"]
Conflict(code) == [type |-> "*errors.DomainConflictError", code |-> code]
Expired(code) == [type |-> "*errors.DomainExpiredError", code |-> code]

(* GetErrorCode's ok: the error implements CodedError (has a Code() method). *)
IsCodedError(err) ==
    err.type \in {"*errors.ValidationError", "*errors.NotFoundError",
                  "*errors.ConflictError", "*errors.GoneError"}

ConvertError(err) ==
    IF err.type = "nil" THEN err
    ELSE IF IsCodedError(err) THEN err
    ELSE CASE err.type = "*errors.InvalidError" ->
                [type |-> "*errors.ValidationError",
                 code |-> IF err.code # "" THEN err.code ELSE "ERR_VALIDATION"]
           [] err.type = "*errors.DomainNotFoundError" ->
                [type |-> "*errors.NotFoundError", code |-> "ERR_NOT_FOUND"]
           [] err.type = "*errors.DomainConflictError" ->
                [type |-> "*errors.ConflictError",
                 code |-> IF err.code # "" THEN err.code ELSE "ERR_CONFLICT"]
           [] err.type = "*errors.DomainExpiredError" ->
                [type |-> "*errors.GoneError", code |-> "ERR_EXPIRED"]
           [] OTHER -> err

(* The earlier StatusCode, which knows ValidationError and NotFoundError only. *)
StatusCodeLegacy(err) ==
    IF err.type = "nil" THEN 200
    ELSE IF err.type = "*errors.ValidationError" THEN 400
    ELSE IF err.type = "*errors.NotFoundError" THEN 404
    ELSE IF IsCodedError(err) /\ err.code \in {"ERR_BAD_REQUEST", "ERR_VALIDATION"} THEN 400
    ELSE IF IsCodedError(err) /\ err.code = "ERR_NOT_FOUND" THEN 404
    ELSE IF IsCodedError(err) /\ err.code = "ERR_CONFLICT" THEN 409
    ELSE IF IsCodedError(err) /\ err.code = "ERR_UNAUTHORIZED" THEN 401
    ELSE IF IsCodedError(err) /\ err.code = "ERR_FORBIDDEN" THEN 403
    ELSE 500

StatusCode(err) ==
    IF err.type = "nil" THEN 200
    ELSE IF err.type = "*errors.InvalidError" THEN 400
    ELSE IF err.type = "*errors.DomainNotFoundError" THEN 404
    ELSE IF err.type = "*errors.DomainConflictError" THEN 409
    ELSE IF err.type = "*errors.DomainExpiredError" THEN 410
    ELSE IF err.type = "*errors.GoneError" THEN 410
    ELSE IF err.type = "*errors.ValidationError" THEN 400
    ELSE IF err.type = "*errors.ConflictError" THEN 409
    ELSE IF err.type = "*errors.NotFoundError" THEN 404
    ELSE IF IsCodedError(err) /\ err.code \in {"ERR_BAD_REQUEST", "ERR_VALIDATION"} THEN 400
    ELSE IF IsCodedError(err) /\ err.code = "ERR_NOT_FOUND" THEN 404
    ELSE IF IsCodedError(err) /\ err.code = "ERR_CONFLICT" THEN 409
    ELSE IF IsCodedError(err) /\ err.code = "ERR_UNAUTHORIZED" THEN 401
    ELSE IF IsCodedError(err) /\ err.code = "ERR_FORBIDDEN" THEN 403
    ELSE 500

mapErrorToStatus(err) == StatusCode(err)

(* The status the client sees: ErrorHandler for an error, else the handler's own. *)
ErrorHandler(err, okStatus) ==
    IF err.type = "nil" THEN okStatus ELSE mapErrorToStatus(ConvertError(err))

----------------------------------------------------------------------------
(* URL validation: url.Parse on the request URLs, then the scheme test *)

ParseURL(u) ==
    CASE u = "http://a" -> [err |-> FALSE, Scheme |-> "http"]
      [] u = "https://b" -> [err |-> FALSE, Scheme |-> "https"]
      [] u = "ftp://c" -> [err |-> FALSE, Scheme |-> "ftp"]
      [] u = "invalid-url" -> [err |-> FALSE, Scheme |-> ""]
      [] OTHER -> [err |-> TRUE, Scheme |-> ""]

validateURLAnyScheme(u) ==
    IF ParseURL(u).err THEN Invalid("ERR_INVALID_URL_FORMAT") ELSE NoErr

validateURL(u) ==
    IF ParseURL(u).err THEN Invalid("ERR_INVALID_URL_FORMAT")
    ELSE IF ParseURL(u).Scheme # "http" /\ ParseURL(u).Scheme # "https"
         THEN Invalid("ERR_INVALID_URL_SCHEME")
    ELSE NoErr

----------------------------------------------------------------------------
(* The existence filter: a Bloom filter of three bits and two hash        *)
(* positions per code.  "z" is never issued; its positions are covered     *)
(* once "x" and "y" are both added (a false positive).                     *)

BloomHash(c) ==
    CASE c = "x" -> {0, 1}
      [] c = "y" -> {1, 2}
      [] OTHER -> {0, 2}

BloomAddNothing(bits, c) == bits

BloomAdd(bits, c) == bits \cup BloomHash(c)

BloomTestAlways(bits, c) == TRUE

BloomTest(bits, c) == BloomHash(c) \subseteq bits

----------------------------------------------------------------------------
(* Collaborators: the durable store and the cache *)

CheckShortCodeExistsNever(st, c) == FALSE

CheckShortCodeExists(st, c) == c \in DOMAIN st

(* A table urls without the UNIQUE constraint *)
UniqueViolationNever(st, c) == FALSE

(* INSERT INTO urls: fails on the UNIQUE constraint of short_code *)
UniqueViolation(st, c) == c \in DOMAIN st

InsertURL(st, rec) == st @@ (rec.ShortCode :> rec)

(* Redis GET: a key whose TTL has run out is gone *)
CacheHit(ch, c, t) == c \in DOMAIN ch /\ t < ch[c].exp

(* Redis SET key value EX ttl, executed at time t *)
SetURL(ch, c, u, ttl, t) ==
    [k \in DOMAIN ch \cup {c} |-> IF k = c THEN [url |-> u, exp |-> t + ttl] ELSE ch[k]]

(* 365*24*time.Hour, in seconds *)
DefaultTTLSecs == 31536000

Seconds(n) == n * TicksPerSec

(* time.Now().UTC().After(ExpiresAt) *)
IsExpired(expiresAt, t) == expiresAt # {} /\ \E e \in expiresAt : t > e

(* time.Until(expiresAt) *)
Until(expiresAt, t) == (CHOOSE e \in expiresAt : TRUE) - t

maxAttempts == 10

----------------------------------------------------------------------------
(* Request slots.  A slot holds the arguments and locals the running call *)
(* still reads: a local is cleared after its last use.                     *)

IdleReq ==
    [op |-> "none", url |-> "", expiresIn |-> {}, alias |-> FALSE,
     shortCode |-> "", expiresAt |-> {}, ttl |-> 0, known |-> FALSE, late |-> FALSE]

Reply(op, err, val, okStatus, calls) ==
    [op |-> op, err |-> err, val |-> val, status |-> ErrorHandler(err, okStatus),
     calls |-> calls]

NoReply == [op |-> "none", err |-> NoErr, val |-> "", status |-> 0, calls |-> {}]

CanStart(p) == pc[p] = "idle" /\ started < MaxOps

(* A publishClickEvent that dispatches nothing *)
PublishNothing(cl, c) == cl

(* publishClickEvent: dispatches one background publish when clickInfo is given *)
Publish(cl, c) == [cl EXCEPT ![c] = @ + 1]

(* No publish task has run, no request context is done *)
NoEmission ==
    [cancelled |-> [c \in LookupCodes |-> 0], ran |-> [c \in LookupCodes |-> 0],
     log |-> {}]

(* The call returns: its reply is kept, its locals are gone.  calls: the *)
(* collaborator calls it made, the last one included.                   *)
Finish(p, op, err, val, okStatus, calls) ==
    /\ pc' = [pc EXCEPT ![p] = "idle"]
    /\ req' = [req EXCEPT ![p] = IdleReq]
    /\ ioLog' = [ioLog EXCEPT ![p] = {}]
    /\ reply' = Reply(op, err, val, okStatus, calls)

(* The call goes on: it has made `calls`, and waits for its next call at `at`. *)
Continue(p, at, r, calls) ==
    /\ pc' = [pc EXCEPT ![p] = at]
    /\ req' = [req EXCEPT ![p] = r]
    /\ ioLog' = [ioLog EXCEPT ![p] = calls]
    /\ reply' = reply

Calls(p, call) == ioLog[p] \cup {call}

(* History: Shorten returns code c for URL u, expiring at e *)
Issue(c, u, e) == issued' = issued @@ (c :> [url |-> u, expiresAt |-> e])

----------------------------------------------------------------------------
(* Shorten *)

(* lines 134-139: now := time.Now(); expiresAt = now + expiresIn seconds *)
ExpiresAtOf(e, t) == {t + Seconds(n) : n \in e}

(* lines 156-164 and 218-226: the TTL of the cache entry, and whether it is written *)
CacheTTL(expiresAt, t) ==
    IF expiresAt # {} THEN Until(expiresAt, t) ELSE Seconds(DefaultTTLSecs)

(* lines 111-118, 126-127: validate, then pick the alias or start generating *)
ShortenEntry(p, u, e, a) ==
    IF validateURL(u) # NoErr
    THEN Finish(p, "shorten", validateURL(u), "", 200, {})
    ELSE Continue(p, IF a # "" THEN "checkAlias" ELSE "generate",
                  [IdleReq EXCEPT !.op = "shorten", !.url = u,
                                  !.expiresIn = e, !.shortCode = a,
                                  !.alias = (a # "")], {})

(* A caller invokes Shorten *)
ShortenStart(p, u, e, a) ==
    /\ CanStart(p)
    /\ started' = started + 1
    /\ ShortenEntry(p, u, e, a)
    /\ UNCHANGED <<now, store, cache, bloomFilter, clicks, issued>>
    /\ UNCHANGED <<lvars, evars>>

(* lines 119-125, 134-139: the alias existence check *)
CheckAlias(p) ==
    /\ pc[p] = "checkAlias"
    /\ IF CheckShortCodeExists(store, req[p].shortCode)
       THEN Finish(p, "shorten", Conflict("ERR_ALIAS_EXISTS"), "", 200,
                   Calls(p, "store.exists"))
       ELSE Continue(p, "create",
                     [req[p] EXCEPT !.expiresAt = ExpiresAtOf(req[p].expiresIn, now),
                                    !.expiresIn = {}],
                     Calls(p, "store.exists"))
    /\ UNCHANGED <<now, store, cache, bloomFilter, clicks, issued, started>>
    /\ UNCHANGED <<lvars, evars>>

(* lines 253-266, 134-139: the allocation loop.  Its existence checks only  *)
(* read a store that only grows, so the loop is taken as one step, at the   *)
(* instant of its last check: `failed` candidates that exist, then either a *)
(* candidate that does not (adopted) or the attempt budget is used up.      *)
Generate(p) ==
    /\ pc[p] = "generate"
    /\ \E failed \in 0..maxAttempts :
         /\ failed > 0 => \E c \in Codes : CheckShortCodeExists(store, c)
         /\ IF failed < maxAttempts
            THEN \E code \in Codes :
                   /\ ~CheckShortCodeExists(store, code)
                   /\ Continue(p, "create",
                               [req[p] EXCEPT !.shortCode = code,
                                  !.expiresAt = ExpiresAtOf(req[p].expiresIn, now),
                                  !.expiresIn = {}],
                               Calls(p, "store.exists"))
            ELSE Finish(p, "shorten", Invalid("ERR_SHORT_CODE_GENERATION"), "", 200,
                        Calls(p, "store.exists"))
    /\ UNCHANGED <<now, store, cache, bloomFilter, clicks, issued, started>>
    /\ UNCHANGED <<lvars, evars>>

(* lines 141-164: insert, filter add, TTL computation.  time.Until reads *)
(* the clock here, after the insert; the cache write it feeds takes      *)
(* effect in a later step.                                               *)
CreateURL(p) ==
    /\ pc[p] = "create"
    /\ IF UniqueViolation(store, req[p].shortCode)
       THEN /\ Finish(p, "shorten", Invalid("ERR_INTERNAL"), "", 200,
                      Calls(p, "store.insert"))
            /\ UNCHANGED <<store, bloomFilter, issued>>
       ELSE /\ store' = InsertURL(store, [ShortCode |-> req[p].shortCode,
                                          OriginalURL |-> req[p].url,
                                          ExpiresAt |-> req[p].expiresAt])
            /\ bloomFilter' = [bloomFilter EXCEPT
                                  ![inst[p]] = BloomAdd(@, req[p].shortCode)]
            /\ IF req[p].expiresAt # {} /\ CacheTTL(req[p].expiresAt, now) <= 0
               THEN /\ Finish(p, "shorten", NoErr, req[p].shortCode, 200,
                              Calls(p, "store.insert"))
                    /\ Issue(req[p].shortCode, req[p].url, req[p].expiresAt)
               ELSE /\ Continue(p, "cacheSet",
                                [req[p] EXCEPT !.ttl = CacheTTL(req[p].expiresAt, now),
                                               !.alias = FALSE],
                                Calls(p, "store.insert"))
                    /\ UNCHANGED issued
    /\ UNCHANGED <<now, cache, clicks, started>>
    /\ UNCHANGED <<lvars, evars>>

(* lines 160/163, 166-172: the cache write, then the reply *)
ShortenCacheSet(p) ==
    /\ pc[p] = "cacheSet"
    /\ cache' = SetURL(cache, req[p].shortCode, req[p].url, req[p].ttl, now)
    /\ Finish(p, "shorten", NoErr, req[p].shortCode, 200, Calls(p, "cache.set"))
    /\ Issue(req[p].shortCode, req[p].url, req[p].expiresAt)
    /\ UNCHANGED <<now, store, bloomFilter, clicks, started>>
    /\ UNCHANGED <<lvars, evars>>

----------------------------------------------------------------------------
(* GetOriginalURL *)

(* lines 195-198: the filter gate.  known: the lookup began after the   *)
(* code's Shorten had returned it; late: and at or after its expiration. *)
GetStart(p, c) ==
    /\ CanStart(p)
    /\ started' = started + 1
    /\ IF ~BloomTest(bloomFilter[inst[p]], c)
       THEN /\ Finish(p, "get", NotFound, "", 301, {})
            /\ missed' = IF c \in DOMAIN store THEN missed \cup {<<inst[p], c>>}
                                               ELSE missed
       ELSE /\ Continue(p, "cacheGet",
                        [IdleReq EXCEPT !.op = "get", !.shortCode = c,
                                        !.known = c \in DOMAIN issued,
                                        !.late = /\ c \in DOMAIN issued
                                                 /\ \E x \in issued[c].expiresAt : now >= x],
                        {})
            /\ UNCHANGED missed
    /\ UNCHANGED <<now, store, cache, bloomFilter, clicks, issued>>
    /\ UNCHANGED <<lvars, inst, lost, restarts, attempts, batch, bres, emission>>

(* lines 200-204: the cache lookup; a hit replies without an expiry check *)
CacheGet(p) ==
    /\ pc[p] = "cacheGet"
    /\ IF CacheHit(cache, req[p].shortCode, now)
       THEN /\ clicks' = Publish(clicks, req[p].shortCode)
            /\ Finish(p, "get", NoErr, cache[req[p].shortCode].url, 301,
                      Calls(p, "cache.get"))
       ELSE /\ Continue(p, "storeGet", req[p], Calls(p, "cache.get"))
            /\ UNCHANGED clicks
    /\ UNCHANGED <<now, store, cache, bloomFilter, issued, started>>
    /\ UNCHANGED <<lvars, evars>>

(* lines 206-221, 228-229: the store read, the expiry check, the TTL *)
StoreGet(p) ==
    /\ pc[p] = "storeGet"
    /\ LET c == req[p].shortCode IN
       IF c \notin DOMAIN store
       THEN /\ Finish(p, "get", NotFound, "", 301, Calls(p, "store.get"))
            /\ UNCHANGED clicks
       ELSE IF IsExpired(store[c].ExpiresAt, now)
       THEN /\ Finish(p, "get", Expired("ERR_EXPIRED"), "", 301, Calls(p, "store.get"))
            /\ UNCHANGED clicks
       ELSE IF store[c].ExpiresAt # {} /\ CacheTTL(store[c].ExpiresAt, now) <= 0
       THEN /\ clicks' = Publish(clicks, c)
            /\ Finish(p, "get", NoErr, store[c].OriginalURL, 301, Calls(p, "store.get"))
       ELSE /\ Continue(p, "getCacheSet",
                        [req[p] EXCEPT !.url = store[c].OriginalURL,
                                       !.ttl = CacheTTL(store[c].ExpiresAt, now)],
                        Calls(p, "store.get"))
            /\ UNCHANGED clicks
    /\ UNCHANGED <<now, store, cache, bloomFilter, issued, started>>
    /\ UNCHANGED <<lvars, evars>>

(* lines 222/225, 228-229: the cache repopulation, the click, the reply *)
GetCacheSet(p) ==
    /\ pc[p] = "getCacheSet"
    /\ cache' = SetURL(cache, req[p].shortCode, req[p].url, req[p].ttl, now)
    /\ clicks' = Publish(clicks, req[p].shortCode)
    /\ Finish(p, "get", NoErr, req[p].url, 301, Calls(p, "cache.set"))
    /\ UNCHANGED <<now, store, bloomFilter, issued, started>>
    /\ UNCHANGED <<lvars, evars>>

----------------------------------------------------------------------------
(* ShortenBatch: lines 175-193.  The loop calls Shorten for each item in *)
(* turn; the steps of that call are the steps of Shorten above.          *)

MaxBatch == 2

(* The items of a batch: a URL that validates, one with a scheme that is *)
(* refused, one that does not parse                                       *)
BatchURLs == {"http://a", "ftp://c", ":bad"}
BatchItems == [url : BatchURLs, expiresIn : ExpiresIns, alias : Codes \cup {""}]
Batches == UNION {[1..n -> BatchItems] : n \in 0..MaxBatch}

(* line 166: fmt.Sprintf("%s/%s", s.domain, shortCode) *)
ShortURL(c) == "http://d/" \o c

(* err.Error() of the errors Shorten returns: their Message is empty, so *)
(* the text is the error code                                            *)
ErrorString(err) == err.code

(* lines 179-185 and 187-190: the result appended for an item *)
BatchError(item, err) == [URL |-> item.url, Short |-> "", Error |-> ErrorString(err)]
BatchOK(item, c) == [URL |-> item.url, Short |-> ShortURL(c), Error |-> ""]

(* What a call leaves behind: the store, the cache, its instance's filter *)
Snapshot(p) == [ok |-> TRUE, store |-> store, cache |-> cache,
                filter |-> bloomFilter[inst[p]]]
NoSnapshot == [ok |-> FALSE, store |-> EmptyMap, cache |-> EmptyMap, filter |-> {}]

IdleBatch == [active |-> FALSE, items |-> <<>>, results |-> <<>>, calling |-> FALSE,
              before |-> NoSnapshot]
NoBatchReply == [op |-> "none", items |-> <<>>, results |-> <<>>, err |-> NoErr,
                 before |-> NoSnapshot, after |-> NoSnapshot]

(* A loop that gives up at the first failing item *)
BatchDoneOnError(b) ==
    \/ Len(b.results) = Len(b.items)
    \/ Len(b.results) > 0 /\ b.results[Len(b.results)].Error # ""

(* line 177: the range loop is over when every item has its result *)
BatchDone(b) == Len(b.results) = Len(b.items)

(* line 176: the call is entered.  One batch runs at a time, alone, and has *)
(* no more items than calls are left.                                       *)
BatchStart(p, items) ==
    /\ \A q \in Procs : pc[q] = "idle" /\ ~batch[q].active
    /\ started + Len(items) <= MaxOps
    /\ batch' = [batch EXCEPT ![p] = [IdleBatch EXCEPT !.active = TRUE,
                                        !.items = items, !.before = Snapshot(p)]]
    /\ UNCHANGED <<now, svars, lvars, inst, lost, restarts, attempts, bres, missed, emission>>

(* lines 177-185: the next item's Shorten is called; a validation error *)
(* comes back at once                                                    *)
BatchItem(p) ==
    /\ batch[p].active /\ ~batch[p].calling /\ ~BatchDone(batch[p])
    /\ CanStart(p)
    /\ started' = started + 1
    /\ LET item == batch[p].items[Len(batch[p].results) + 1] IN
         /\ ShortenEntry(p, item.url, item.expiresIn, item.alias)
         /\ batch' = [batch EXCEPT ![p] =
                IF validateURL(item.url) # NoErr
                THEN [@ EXCEPT !.results = Append(@, BatchError(item, validateURL(item.url)))]
                ELSE [@ EXCEPT !.calling = TRUE]]
    /\ UNCHANGED <<now, store, cache, bloomFilter, clicks, issued>>
    /\ UNCHANGED <<lvars, inst, lost, restarts, attempts, bres, missed, emission>>

(* lines 178-190: the item's Shorten has returned; its result is appended *)
BatchCollect(p) ==
    /\ batch[p].active /\ batch[p].calling /\ pc[p] = "idle"
    /\ LET item == batch[p].items[Len(batch[p].results) + 1] IN
         batch' = [batch EXCEPT ![p] =
                [@ EXCEPT !.calling = FALSE,
                          !.results = Append(@, IF reply.err # NoErr
                                                THEN BatchError(item, reply.err)
                                                ELSE BatchOK(item, reply.val))]]
    /\ UNCHANGED <<now, svars, lvars, inst, lost, restarts, attempts, bres, missed, emission>>

(* line 192: return results, nil *)
BatchReturn(p) ==
    /\ batch[p].active /\ ~batch[p].calling /\ BatchDone(batch[p])
    /\ bres' = [op |-> "batch", items |-> batch[p].items, results |-> batch[p].results,
                err |-> NoErr, before |-> batch[p].before, after |-> Snapshot(p)]
    /\ batch' = [batch EXCEPT ![p] = IdleBatch]
    /\ UNCHANGED <<now, svars, lvars, inst, lost, restarts, attempts, missed, emission>>

----------------------------------------------------------------------------
(* Collaborator failures.  A store or cache call may return an error other *)
(* than not-found (connection lost, timeout); the failed call is logged    *)
(* with a trailing "!".                                                     *)

StoreFailures == {"store.exists!", "store.insert!", "store.get!"}
CacheFailures == {"cache.get!", "cache.set!"}

(* lines 119-122: the alias existence check fails *)
CheckAliasFail(p) ==
    /\ pc[p] = "checkAlias"
    /\ Finish(p, "shorten", Invalid("ERR_INTERNAL"), "", 200, Calls(p, "store.exists!"))
    /\ UNCHANGED <<now, store, cache, bloomFilter, clicks, issued, started>>
    /\ UNCHANGED <<lvars, evars>>

(* A loop without a budget: it draws until a candidate is free *)
GenerateAttemptUnbounded(p) ==
    /\ pc[p] = "generate"
    /\ \E code \in Codes :
         IF ~CheckShortCodeExists(store, code)
         THEN /\ Continue(p, "create",
                          [req[p] EXCEPT !.shortCode = code,
                             !.expiresAt = ExpiresAtOf(req[p].expiresIn, now),
                             !.expiresIn = {}],
                          Calls(p, "store.exists"))
              /\ attempts' = [attempts EXCEPT ![p] = 0]
         ELSE /\ Continue(p, "generate", req[p], Calls(p, "store.exists"))
              /\ attempts' = [attempts EXCEPT ![p] = @ + 1]
    /\ UNCHANGED <<now, store, cache, bloomFilter, clicks, issued, started>>
    /\ UNCHANGED <<lvars, inst, lost, restarts, batch, bres, missed, emission>>

(* lines 253-266, 134-139: one iteration of the allocation loop: draw a *)
(* candidate, ask the store whether it exists.  attempts counts the     *)
(* iterations done; the loop ends with the first free candidate or when *)
(* the budget is used up.                                               *)
GenerateAttempt(p) ==
    /\ pc[p] = "generate"
    /\ attempts[p] < maxAttempts
    /\ \E code \in Codes :
         IF ~CheckShortCodeExists(store, code)
         THEN /\ Continue(p, "create",
                          [req[p] EXCEPT !.shortCode = code,
                             !.expiresAt = ExpiresAtOf(req[p].expiresIn, now),
                             !.expiresIn = {}],
                          Calls(p, "store.exists"))
              /\ attempts' = [attempts EXCEPT ![p] = 0]
         ELSE IF attempts[p] + 1 < maxAttempts
         THEN /\ Continue(p, "generate", req[p], Calls(p, "store.exists"))
              /\ attempts' = [attempts EXCEPT ![p] = @ + 1]
         ELSE /\ Finish(p, "shorten", Invalid("ERR_SHORT_CODE_GENERATION"), "", 200,
                        Calls(p, "store.exists"))
              /\ attempts' = [attempts EXCEPT ![p] = 0]
    /\ UNCHANGED <<now, store, cache, bloomFilter, clicks, issued, started>>
    /\ UNCHANGED <<lvars, inst, lost, restarts, batch, bres, missed, emission>>

(* lines 257-259: the existence check of an iteration fails *)
GenerateAttemptFail(p) ==
    /\ pc[p] = "generate"
    /\ attempts[p] < maxAttempts
    /\ Finish(p, "shorten", Invalid("ERR_INTERNAL"), "", 200, Calls(p, "store.exists!"))
    /\ attempts' = [attempts EXCEPT ![p] = 0]
    /\ UNCHANGED <<now, store, cache, bloomFilter, clicks, issued, started>>
    /\ UNCHANGED <<lvars, inst, lost, restarts, batch, bres, missed, emission>>

(* A Shorten that adds the code to the filter before the insert *)
CreateURLFailAdded(p) ==
    /\ pc[p] = "create"
    /\ bloomFilter' = [bloomFilter EXCEPT ![inst[p]] = BloomAdd(@, req[p].shortCode)]
    /\ Finish(p, "shorten", Invalid("ERR_INTERNAL"), "", 200, Calls(p, "store.insert!"))
    /\ UNCHANGED <<now, store, cache, clicks, issued, started>>
    /\ UNCHANGED <<lvars, evars>>

(* lines 150-152: the insert fails; the filter add at line 154 is not reached *)
CreateURLFail(p) ==
    /\ pc[p] = "create"
    /\ Finish(p, "shorten", Invalid("ERR_INTERNAL"), "", 200, Calls(p, "store.insert!"))
    /\ UNCHANGED <<now, store, cache, bloomFilter, clicks, issued, started>>
    /\ UNCHANGED <<lvars, evars>>

(* lines 160/163: the cache write fails; its error is dropped *)
ShortenCacheSetFail(p) ==
    /\ pc[p] = "cacheSet"
    /\ Finish(p, "shorten", NoErr, req[p].shortCode, 200, Calls(p, "cache.set!"))
    /\ Issue(req[p].shortCode, req[p].url, req[p].expiresAt)
    /\ UNCHANGED <<now, store, cache, bloomFilter, clicks, started>>
    /\ UNCHANGED <<lvars, evars>>

(* A lookup that gives up when the cache read fails *)
CacheGetFailFatal(p) ==
    /\ pc[p] = "cacheGet"
    /\ Finish(p, "get", Invalid("ERR_INTERNAL"), "", 301, Calls(p, "cache.get!"))
    /\ UNCHANGED <<now, store, cache, bloomFilter, clicks, issued, started>>
    /\ UNCHANGED <<lvars, evars>>

(* lines 200-206: the cache read fails; any error is taken as a miss *)
CacheGetFail(p) ==
    /\ pc[p] = "cacheGet"
    /\ Continue(p, "storeGet", req[p], Calls(p, "cache.get!"))
    /\ UNCHANGED <<now, store, cache, bloomFilter, clicks, issued, started>>
    /\ UNCHANGED <<lvars, evars>>

(* lines 206-212: the store read fails with an error other than not-found *)
StoreGetFail(p) ==
    /\ pc[p] = "storeGet"
    /\ Finish(p, "get", Invalid("ERR_INTERNAL"), "", 301, Calls(p, "store.get!"))
    /\ UNCHANGED <<now, store, cache, bloomFilter, clicks, issued, started>>
    /\ UNCHANGED <<lvars, evars>>

(* lines 222/225, 228-229: the cache repopulation fails; its error is dropped *)
GetCacheSetFail(p) ==
    /\ pc[p] = "getCacheSet"
    /\ clicks' = Publish(clicks, req[p].shortCode)
    /\ Finish(p, "get", NoErr, req[p].url, 301, Calls(p, "cache.set!"))
    /\ UNCHANGED <<now, store, cache, bloomFilter, issued, started>>
    /\ UNCHANGED <<lvars, evars>>

----------------------------------------------------------------------------
(* Several instances, and restarts.  NewService (lines 46-66) builds the  *)
(* filter in memory, empty; nothing reads the store to fill it.           *)

MaxRestarts == 1

(* A restart that fills the new filter from the store *)
NewFilterRehydrated(st) == UNION {BloomHash(c) : c \in DOMAIN st}

(* bloom.NewWithEstimates: the filter of a new process *)
NewFilter(st) == {}

(* The process of instance i ends and a new one is started: its calls in *)
(* flight are gone, its filter is new                                    *)
Restart(i) ==
    /\ restarts < MaxRestarts
    /\ restarts' = restarts + 1
    /\ bloomFilter' = [bloomFilter EXCEPT ![i] = NewFilter(store)]
    /\ lost' = [lost EXCEPT ![i] = DOMAIN store]
    /\ pc' = [p \in Procs |-> IF inst[p] = i THEN "idle" ELSE pc[p]]
    /\ req' = [p \in Procs |-> IF inst[p] = i THEN IdleReq ELSE req[p]]
    /\ ioLog' = [p \in Procs |-> IF inst[p] = i THEN {} ELSE ioLog[p]]
    /\ UNCHANGED <<now, store, cache, clicks, reply, issued, started>>
    /\ UNCHANGED <<lvars, inst, attempts, batch, bres, missed, emission>>

----------------------------------------------------------------------------
(* The rate limiter: limiter.Allow over the RateLimitCache *)

Ids == {"ip1", "ip2"}
MaxCalls == 3
MaxLimiterTime == 5

(* The limiter's configuration: one request per window of one second *)
maxRequests == 1
windowSize == Seconds(1)

(* windowSize+time.Second*10: the time to live of a window key *)
WindowTTL == windowSize + Seconds(10)

(* now.Format(time.RFC3339): the layout has no fractional seconds, so the *)
(* string names the whole second the instant lies in.                     *)
Format(t) == t \div TicksPerSec

(* time.Parse(time.RFC3339, ts): the instant at the start of that second *)
Parse(ts) == Seconds(ts)

(* A read that uses one key for every identifier *)
GetWindowShared(w, id, t) ==
    IF "ip1" \in DOMAIN w /\ t < w["ip1"].exp THEN w["ip1"].list ELSE <<>>

(* GetWindow: the stored list; a key that is absent or timed out gives *)
(* ErrNotFound and a nil list, which both callers take as empty.       *)
GetWindow(w, id, t) ==
    IF id \in DOMAIN w /\ t < w[id].exp THEN w[id].list ELSE <<>>

SetWindow(w, id, list, ttl, t) ==
    [k \in DOMAIN w \cup {id} |-> IF k = id THEN [list |-> list, exp |-> t + ttl]
                                           ELSE w[k]]

ValidCountAll(list, cutoff) == Len(list)

(* A loop that counts no entry *)
ValidCountNone(list, cutoff) == 0

(* Allow's loop: the entries that lie after the cutoff *)
ValidCount(list, cutoff) ==
    Cardinality({i \in DOMAIN list : Parse(list[i]) > cutoff})

(* AddToWindow's loop: keeps the entries that lie after the cutoff *)
Filtered(list, cutoff) ==
    LET keep(ts) == Parse(ts) > cutoff IN SelectSeq(list, keep)

IdleAllow ==
    [id |-> "", at |-> 0, timestamp |-> 0, filtered |-> <<>>,
     quiet |-> FALSE, failed |-> FALSE]

NoVerdict ==
    [id |-> "", verdict |-> "none", soon |-> FALSE,
     quiet |-> FALSE, afterReject |-> FALSE, failed |-> FALSE]

Max(a, b) == IF a >= b THEN a ELSE b

(* Allow returns v ("true", "false" or "error") from the call whose locals *)
(* are r.  The history keeps, per identifier, the latest call time among   *)
(* its admitted calls and whether a call was rejected since the last       *)
(* admission.  soon: this call's time is less than windowSize after the    *)
(* call time of an admitted call that had returned.                        *)
AllowReturn(p, r, v) ==
    /\ lpc' = [lpc EXCEPT ![p] = "idle"]
    /\ lreq' = [lreq EXCEPT ![p] = IdleAllow]
    /\ lres' = [id |-> r.id, verdict |-> v,
                soon |-> hist.admit[r.id] >= 0 /\ r.at - hist.admit[r.id] < windowSize,
                quiet |-> r.quiet,
                afterReject |-> hist.rejected[r.id], failed |-> r.failed]
    /\ hist' = [hist EXCEPT
                  !.admit[r.id] = IF v = "true" THEN Max(@, r.at) ELSE @,
                  !.rejected[r.id] = IF v = "true" THEN FALSE
                                     ELSE IF v = "false" THEN TRUE ELSE @]

(* part_003 lines 359-362: now := time.Now(); timestamp := now.Format(...) *)
AllowStart(p, id) ==
    /\ lpc[p] = "idle"
    /\ lstarted < MaxCalls
    /\ lstarted' = lstarted + 1
    /\ lpc' = [lpc EXCEPT ![p] = "getWindow"]
    /\ lreq' = [lreq EXCEPT ![p] = [IdleAllow EXCEPT !.id = id, !.at = now,
                                                     !.timestamp = Format(now)]]
    /\ hist' = [hist EXCEPT !.overlap = @ \/ \E q \in Procs : lpc[q] # "idle"]
    /\ UNCHANGED <<now, window, lres>>
    /\ UNCHANGED <<svars, evars>>

(* part_003 lines 364-384: read the window, count, reject at the limit. *)
(* quiet: no call of this identifier admitted so far has a call time    *)
(* later than this call's time minus windowSize.                        *)
AllowGetWindow(p) ==
    /\ lpc[p] = "getWindow"
    /\ LET r == lreq[p]
           timestamps == GetWindow(window, r.id, now)
           cutoff == r.at - windowSize
           quiet == hist.admit[r.id] <= cutoff
       IN IF ValidCount(timestamps, cutoff) >= maxRequests
          THEN AllowReturn(p, [r EXCEPT !.quiet = quiet], "false")
          ELSE /\ lpc' = [lpc EXCEPT ![p] = "addGet"]
               /\ lreq' = [lreq EXCEPT ![p].quiet = quiet]
               /\ UNCHANGED <<lres, hist>>
    /\ UNCHANGED <<now, window, lstarted>>
    /\ UNCHANGED <<svars, evars>>

(* part_015 lines 179-194: AddToWindow reads the list again, appends the *)
(* timestamp, and filters against its own time.Now()                     *)
AddToWindowGet(p) ==
    /\ lpc[p] = "addGet"
    /\ LET r == lreq[p]
           timestamps == Append(GetWindow(window, r.id, now), r.timestamp)
       IN lreq' = [lreq EXCEPT ![p].filtered = Filtered(timestamps, now - windowSize)]
    /\ lpc' = [lpc EXCEPT ![p] = "addSet"]
    /\ UNCHANGED <<now, window, lres, hist, lstarted>>
    /\ UNCHANGED <<svars, evars>>

(* A write that first counts the list stored by now, and rejects when it *)
(* is full                                                               *)
AddToWindowSetChecked(p) ==
    /\ lpc[p] = "addSet"
    /\ IF ValidCount(GetWindow(window, lreq[p].id, now), lreq[p].at - windowSize)
             >= maxRequests
       THEN /\ AllowReturn(p, lreq[p], "false")
            /\ UNCHANGED window
       ELSE /\ window' = SetWindow(window, lreq[p].id, lreq[p].filtered, WindowTTL, now)
            /\ AllowReturn(p, lreq[p], "true")
    /\ UNCHANGED <<now, lstarted>>
    /\ UNCHANGED <<svars, evars>>

(* part_015 line 196, part_003 lines 386-390: write the list, return true *)
AddToWindowSet(p) ==
    /\ lpc[p] = "addSet"
    /\ window' = SetWindow(window, lreq[p].id, lreq[p].filtered, WindowTTL, now)
    /\ AllowReturn(p, lreq[p], "true")
    /\ UNCHANGED <<now, lstarted>>
    /\ UNCHANGED <<svars, evars>>

(* part_003 lines 364-367: the read fails (not with ErrNotFound) *)
AllowGetWindowFail(p) ==
    /\ lpc[p] = "getWindow"
    /\ AllowReturn(p, [lreq[p] EXCEPT !.failed = TRUE], "error")
    /\ UNCHANGED <<now, window, lstarted>>
    /\ UNCHANGED <<svars, evars>>

(* part_015 lines 179-182: the read inside AddToWindow fails; its error is *)
(* dropped and the nil list is taken as empty                              *)
AddToWindowGetFail(p) ==
    /\ lpc[p] = "addGet"
    /\ lreq' = [lreq EXCEPT ![p].filtered =
                    Filtered(<<lreq[p].timestamp>>, now - windowSize),
                            ![p].failed = TRUE]
    /\ lpc' = [lpc EXCEPT ![p] = "addSet"]
    /\ UNCHANGED <<now, window, lres, hist, lstarted>>
    /\ UNCHANGED <<svars, evars>>

(* part_015 line 196, part_003 lines 386-388: the write fails *)
AddToWindowSetFail(p) ==
    /\ lpc[p] = "addSet"
    /\ AllowReturn(p, [lreq[p] EXCEPT !.failed = TRUE], "error")
    /\ UNCHANGED <<now, window, lstarted>>
    /\ UNCHANGED <<svars, evars>>

----------------------------------------------------------------------------
(* The HTTP pipeline of the rate-limited route group *)

(* The handlers registered on the group: POST /shorten, POST /shorten/batch, *)
(* GET /:code                                                                *)
Handlers == {"Shorten", "ShortenBatch", "Redirect"}

(* A group without the limiter *)
RouterUnlimited(h) == <<"Logger", "Prometheus", "ErrorHandler", h>>

(* Router: the middleware of the group, in the order of the Use calls, *)
(* then the route's handler                                             *)
Router(h) == <<"Logger", "RateLimit", "Prometheus", "ErrorHandler", h>>

(* A fresh gin context: nothing has run, no status written *)
NewContext == [ran |-> <<>>, status |-> 0, aborted |-> FALSE]

(* RateLimit: the middleware, given what limiter.Allow returned: an error *)
(* writes 500 and aborts, false writes 429 and aborts, true calls Next    *)
RateLimit(c, v) ==
    IF v = "error" THEN [c EXCEPT !.status = 500, !.aborted = TRUE]
    ELSE IF v = "false" THEN [c EXCEPT !.status = 429, !.aborted = TRUE]
    ELSE c

(* gin's Context.Next: the chain runs in order from index i until it ends *)
(* or a middleware has aborted; the handlers write their own status      *)
RECURSIVE Serve(_, _, _, _)
Serve(chain, i, c, v) ==
    IF i > Len(chain) \/ c.aborted THEN c
    ELSE LET entered == [c EXCEPT !.ran = Append(@, chain[i])]
         IN  Serve(chain, i + 1,
                   IF chain[i] = "RateLimit" THEN RateLimit(entered, v)
                   ELSE IF chain[i] \in Handlers THEN [entered EXCEPT !.status = 200]
                   ELSE entered,
                   v)

----------------------------------------------------------------------------
(* The clock *)

Tick ==
    /\ now < MaxTime
    /\ now' = now + 1
    /\ UNCHANGED <<svars, lvars, evars>>

LimiterTick ==
    /\ now < MaxLimiterTime
    /\ now' = now + 1
    /\ UNCHANGED <<svars, lvars, evars>>

----------------------------------------------------------------------------
(* Initial state: NewService builds an empty filter; store and caches empty *)

InitService ==
    /\ store = EmptyMap
    /\ cache = EmptyMap
    /\ bloomFilter = [i \in Instances |-> {}]
    /\ clicks = [c \in LookupCodes |-> 0]
    /\ pc = [p \in Procs |-> "idle"]
    /\ req = [p \in Procs |-> IdleReq]
    /\ ioLog = [p \in Procs |-> {}]
    /\ reply = NoReply
    /\ issued = EmptyMap
    /\ started = 0

InitLimiter ==
    /\ window = EmptyMap
    /\ lpc = [p \in Procs |-> "idle"]
    /\ lreq = [p \in Procs |-> IdleAllow]
    /\ lres = NoVerdict
    /\ hist = [admit |-> [i \in Ids |-> -1], rejected |-> [i \in Ids |-> FALSE],
               overlap |-> FALSE]
    /\ lstarted = 0

(* One instance serves every slot; no restart has happened *)
InitDeployment ==
    /\ inst = [p \in Procs |-> 1]
    /\ lost = [i \in Instances |-> {}]
    /\ restarts = 0
    /\ attempts = [p \in Procs |-> 0]
    /\ batch = [p \in Procs |-> IdleBatch]
    /\ bres = NoBatchReply
    /\ missed = {}
    /\ emission = NoEmission

Init == now = 0 /\ InitService /\ InitLimiter /\ InitDeployment

Next ==
    \/ \E p \in Procs, u \in URLs, e \in ExpiresIns, a \in Codes \cup {""} :
           ShortenStart(p, u, e, a)
    \/ \E p \in Procs : CheckAlias(p)
    \/ \E p \in Procs : Generate(p)
    \/ \E p \in Procs : CreateURL(p)
    \/ \E p \in Procs : ShortenCacheSet(p)
    \/ \E p \in Procs, c \in LookupCodes : GetStart(p, c)
    \/ \E p \in Procs : CacheGet(p)
    \/ \E p \in Procs : StoreGet(p)
    \/ \E p \in Procs : GetCacheSet(p)
    \/ Tick

Spec == Init /\ [][Next]_vars

(* The limiter with a store that answers *)
NextLimiter ==
    \/ \E p \in Procs, id \in Ids : AllowStart(p, id)
    \/ \E p \in Procs : AllowGetWindow(p)
    \/ \E p \in Procs : AddToWindowGet(p)
    \/ \E p \in Procs : AddToWindowSet(p)
    \/ LimiterTick

SpecLimiter == Init /\ [][NextLimiter]_vars

(* The limiter with a store whose reads and writes may fail *)
NextLimiterFaulty ==
    \/ NextLimiter
    \/ \E p \in Procs : AllowGetWindowFail(p)
    \/ \E p \in Procs : AddToWindowGetFail(p)
    \/ \E p \in Procs : AddToWindowSetFail(p)

SpecLimiterFaulty == Init /\ [][NextLimiterFaulty]_vars

(* A fleet: every slot is served by some instance; instances restart *)
InitFleet ==
    /\ now = 0
    /\ InitService
    /\ InitLimiter
    /\ inst \in [Procs -> Instances]
    /\ lost = [i \in Instances |-> {}]
    /\ restarts = 0
    /\ attempts = [p \in Procs |-> 0]
    /\ batch = [p \in Procs |-> IdleBatch]
    /\ bres = NoBatchReply
    /\ missed = {}
    /\ emission = NoEmission

NextFleet ==
    \/ \E p \in Procs, u \in URLs, e \in ExpiresIns, a \in Codes \cup {""} :
           ShortenStart(p, u, e, a)
    \/ \E p \in Procs : CheckAlias(p)
    \/ \E p \in Procs : Generate(p)
    \/ \E p \in Procs : CreateURL(p)
    \/ \E p \in Procs : ShortenCacheSet(p)
    \/ \E p \in Procs, c \in LookupCodes : GetStart(p, c)
    \/ \E p \in Procs : CacheGet(p)
    \/ \E p \in Procs : StoreGet(p)
    \/ \E p \in Procs : GetCacheSet(p)
    \/ \E i \in Instances : Restart(i)

SpecFleet == InitFleet /\ [][NextFleet]_vars

(* Batches, one at a time, over collaborators that answer *)
NextBatch ==
    \/ \E p \in Procs, items \in Batches : BatchStart(p, items)
    \/ \E p \in Procs : BatchItem(p)
    \/ \E p \in Procs : BatchCollect(p)
    \/ \E p \in Procs : BatchReturn(p)
    \/ \E p \in Procs : CheckAlias(p)
    \/ \E p \in Procs : Generate(p)
    \/ \E p \in Procs : CreateURL(p)
    \/ \E p \in Procs : ShortenCacheSet(p)

SpecBatch == Init /\ [][NextBatch]_vars

(* The service over a store and a cache whose calls may fail; the *)
(* allocation loop runs one iteration at a time.                   *)
NextFaulty ==
    \/ \E p \in Procs, u \in URLs, e \in ExpiresIns, a \in Codes \cup {""} :
           ShortenStart(p, u, e, a)
    \/ \E p \in Procs : CheckAlias(p)
    \/ \E p \in Procs : CheckAliasFail(p)
    \/ \E p \in Procs : GenerateAttempt(p)
    \/ \E p \in Procs : GenerateAttemptFail(p)
    \/ \E p \in Procs : CreateURL(p)
    \/ \E p \in Procs : CreateURLFail(p)
    \/ \E p \in Procs : ShortenCacheSet(p)
    \/ \E p \in Procs : ShortenCacheSetFail(p)
    \/ \E p \in Procs, c \in LookupCodes : GetStart(p, c)
    \/ \E p \in Procs : CacheGet(p)
    \/ \E p \in Procs : CacheGetFail(p)
    \/ \E p \in Procs : StoreGet(p)
    \/ \E p \in Procs : StoreGetFail(p)
    \/ \E p \in Procs : GetCacheSet(p)
    \/ \E p \in Procs : GetCacheSetFail(p)

SpecFaulty == Init /\ [][NextFaulty]_vars

----------------------------------------------------------------------------
(* Properties of Shorten and GetOriginalURL *)

ShortenPcs == {"checkAlias", "generate", "create", "cacheSet"}
GetPcs == {"cacheGet", "storeGet", "getCacheSet"}

(* The running call of slot p, waiting at one of `at`, returns in this step *)
Returns(p, at) == pc[p] \in at /\ pc'[p] = "idle"

(* A call begins in this step *)
Begins == started' = started + 1

(* url.Parse accepts u and its scheme is http or https *)
ValidURL(u) == ~ParseURL(u).err /\ ParseURL(u).Scheme \in {"http", "https"}

(* The code the Shorten of slot p is about to check, draw or insert is taken *)
CodeTaken(p) ==
    \/ pc[p] \in {"checkAlias", "create"} /\ req[p].shortCode \in DOMAIN store
    \/ pc[p] = "generate" /\ store # EmptyMap

(* The expiration, if any, lies after t *)
Unexpired(expiresAt, t) == \A x \in expiresAt : t < x

(* What a lookup of a code that Shorten returned must give back *)
RoundTrip ==
    /\ \A p \in Procs, c \in LookupCodes :
         (Begins /\ pc[p] = "idle" /\ c \in DOMAIN issued /\ GetStart(p, c))
         => pc'[p] # "idle"
    /\ \A p \in Procs :
         (/\ Returns(p, GetPcs)
          /\ req[p].known
          /\ Unexpired(issued[req[p].shortCode].expiresAt, now))
         => /\ reply'.err = NoErr
            /\ reply'.val = issued[req[p].shortCode].url

C3_RaceLoserConflict ==
    [][\A p \in Procs :
         (CreateURL(p) /\ req[p].alias /\ UniqueViolation(store, req[p].shortCode))
         => /\ reply'.err.type = "*errors.DomainConflictError"
            /\ reply'.status = 409]_vars

(* The loser of the insert race was answered with the internal error code *)
(* in a validation-typed error, status 400.                               *)
C3_Witness ==
    /\ reply.op = "shorten"
    /\ reply.err = Invalid("ERR_INTERNAL")
    /\ reply.status = 400
    /\ "store.insert" \in reply.calls

(* C4, as stated: for a code that Shorten returned with an expiration     *)
(* (set to the creation time plus expires_in), a lookup that returns      *)
(* before the expiration gives the URL, and a lookup that begins at or    *)
(* after the expiration fails with the expired error, whether it is       *)
(* answered from the cache or from the store.                             *)
C4_ExpiryTiming ==
    [][\A p \in Procs :
         (/\ Returns(p, GetPcs)
          /\ req[p].known
          /\ issued[req[p].shortCode].expiresAt # {})
         => /\ Unexpired(issued[req[p].shortCode].expiresAt, now)
               => (reply'.err = NoErr /\ reply'.val = issued[req[p].shortCode].url)
            /\ req[p].late => reply'.err.type = "*errors.DomainExpiredError"]_vars

(* A lookup was answered with the URL from the cache at or after the *)
(* expiration of its code.                                           *)
C4_Witness ==
    /\ reply.op = "get"
    /\ reply.err = NoErr
    /\ reply.calls = {"cache.get"}
    /\ \E c \in DOMAIN issued :
         /\ issued[c].url = reply.val
         /\ \E x \in issued[c].expiresAt : now >= x
         /\ \A d \in DOMAIN issued : d # c => issued[d].url # reply.val

(* C8: a Shorten whose URL does not parse, or whose scheme is neither http *)
(* nor https, returns in its first step with the validation error, having  *)
(* called no collaborator: store, cache and filter are unchanged.          *)
C8_InvalidURL ==
    [][\A p \in Procs, u \in URLs :
         (Begins /\ pc[p] = "idle" /\ ~ValidURL(u)) =>
         \A e \in ExpiresIns, a \in Codes \cup {""} :
         ShortenStart(p, u, e, a)
         => /\ pc'[p] = "idle"
            /\ reply'.op = "shorten"
            /\ reply'.err.type = "*errors.InvalidError"
            /\ reply'.err.code \in {"ERR_INVALID_URL_FORMAT", "ERR_INVALID_URL_SCHEME"}
            /\ reply'.calls = {}
            /\ UNCHANGED <<store, cache, bloomFilter>>]_vars

(* A Shorten of a URL with a foreign scheme was refused while the store, *)
(* the cache and the filter hold an earlier record.                      *)
C8_Witness ==
    /\ reply.op = "shorten"
    /\ reply.err = Invalid("ERR_INVALID_URL_SCHEME")
    /\ reply.calls = {}
    /\ store # EmptyMap
    /\ cache # EmptyMap
    /\ bloomFilter[1] # {}

(* C9: a GetOriginalURL of a code whose filter positions are not all set *)
(* returns not-found in its first step, having called neither the cache  *)
(* nor the store, and dispatches no click event.                         *)
C9_FilterGate ==
    [][\A p \in Procs, c \in LookupCodes :
         (/\ Begins
          /\ pc[p] = "idle"
          /\ ~(BloomHash(c) \subseteq bloomFilter[inst[p]])
          /\ GetStart(p, c))
         => /\ pc'[p] = "idle"
            /\ reply'.op = "get"
            /\ reply'.err = NotFound
            /\ reply'.calls = {}
            /\ UNCHANGED <<store, cache, clicks>>]_vars

(* A lookup was refused by a filter that holds a code, with no call made *)
C9_Witness ==
    /\ reply.op = "get"
    /\ reply.err = NotFound
    /\ reply.calls = {}
    /\ bloomFilter[1] # {}
    /\ store # EmptyMap
    /\ cache # EmptyMap

(* C10: the reply to a not-found error has status 404, to an expired *)
(* error 410, to a conflict error 409: three statuses, none of them  *)
(* 500.                                                              *)
C10_DistinctStatus ==
    /\ reply.err.type = "*errors.DomainNotFoundError" => reply.status = 404
    /\ reply.err.type = "*errors.DomainExpiredError" => reply.status = 410
    /\ reply.err.type = "*errors.DomainConflictError" => reply.status = 409

(* A lookup of an expired code was answered with status 410 *)
C10_Witness ==
    /\ reply.op = "get"
    /\ reply.err = Expired("ERR_EXPIRED")
    /\ reply.status = 410

----------------------------------------------------------------------------
(* Properties of the rate limiter *)

(* C5, as stated, for maxRequests = 1: of two Allow calls of one          *)
(* identifier, the second begun after the first returned and no other     *)
(* call overlapping, whose call times are less than windowSize apart, not *)
(* both return true.  (The verdict record is of the second call; soon     *)
(* says an admitted call that had returned lies less than windowSize      *)
(* before it.)                                                            *)
C5_BurstRejected ==
    (lres.verdict = "true" /\ ~hist.overlap) => ~lres.soon

(* Two calls in sequence, less than windowSize apart, both admitted *)
C5_Witness ==
    /\ lres.verdict = "true"
    /\ lres.soon
    /\ ~hist.overlap
    /\ lstarted = maxRequests + 1

(* C6: an Allow call whose time is at least windowSize after the call *)
(* time of every call of its identifier admitted so far returns true, *)
(* whether or not calls were rejected since.                          *)
C6_Recovery ==
    lres.quiet => lres.verdict = "true"

(* A call was admitted windowSize after the last admission, a call having *)
(* been rejected in between.                                              *)
C6_Witness ==
    /\ lres.verdict = "true"
    /\ lres.quiet
    /\ lres.afterReject
    /\ ~hist.overlap

(* C7, as stated: an Allow call during which a read or a write of the *)
(* store failed (not with key-not-found) returns an error.            *)
C7_StoreFailureIsError ==
    lres.failed => lres.verdict = "error"

(* Allow returned true though the read inside AddToWindow had failed *)
C7_Witness ==
    /\ lres.failed
    /\ lres.verdict = "true"

----------------------------------------------------------------------------
(* Properties of the service over failing collaborators *)

(* C11: a call of Shorten or GetOriginalURL whose durable-store call failed *)
(* (existence check, insert, read error other than not-found) is answered   *)
(* with HTTP 500, a status other than the 400 of a malformed URL.           *)
C11_StoreFailureIs500 ==
    reply.calls \cap StoreFailures # {} => reply.status = 500

(* A call whose store call failed has been answered, with the status *)
(* of a validation error                                              *)
C11_Witness ==
    /\ reply.calls \cap StoreFailures # {}
    /\ reply.err = Invalid("ERR_INTERNAL")
    /\ reply.status = StatusCode(validateURL("invalid-url"))

----------------------------------------------------------------------------
(* Properties of ShortenBatch *)

(* Shorten as one call on its own (lines 111-173), from the state s at    *)
(* time t: the state it leaves if res is a result it can give for `item`, *)
(* and a state marked not ok if it cannot give res.                       *)
ShortenOnce(s, item, res, t) ==
    LET Fail(err) == IF res = BatchError(item, err) THEN s ELSE [s EXCEPT !.ok = FALSE]
        Made(c) ==
            LET expiresAt == ExpiresAtOf(item.expiresIn, t) IN
            [ok     |-> s.ok /\ res = BatchOK(item, c),
             store  |-> InsertURL(s.store, [ShortCode |-> c, OriginalURL |-> item.url,
                                            ExpiresAt |-> expiresAt]),
             filter |-> BloomAdd(s.filter, c),
             cache  |-> IF expiresAt # {} /\ CacheTTL(expiresAt, t) <= 0
                        THEN s.cache
                        ELSE SetURL(s.cache, c, item.url, CacheTTL(expiresAt, t), t)]
        Free == {c \in Codes : ~CheckShortCodeExists(s.store, c) /\ res = BatchOK(item, c)}
    IN  IF validateURL(item.url) # NoErr THEN Fail(validateURL(item.url))
        ELSE IF item.alias # ""
        THEN IF CheckShortCodeExists(s.store, item.alias)
             THEN Fail(Conflict("ERR_ALIAS_EXISTS"))
             ELSE Made(item.alias)
        ELSE IF Free # {} THEN Made(CHOOSE c \in Free : TRUE)
        ELSE IF \E c \in Codes : CheckShortCodeExists(s.store, c)
        THEN Fail(Invalid("ERR_SHORT_CODE_GENERATION"))
        ELSE [s EXCEPT !.ok = FALSE]

(* Shorten called on the items one by one, in order *)
RECURSIVE OneByOne(_, _, _, _)
OneByOne(s, items, results, t) ==
    IF items = <<>> \/ results = <<>> THEN s
    ELSE OneByOne(ShortenOnce(s, Head(items), Head(results), t),
                  Tail(items), Tail(results), t)

(* C12: ShortenBatch returns no error and one result per item, in input   *)
(* order; result i carries item i's URL and either the short URL or the   *)
(* item's error string; the results, and the store, cache and filter the  *)
(* batch leaves, are those of calling Shorten on the items one by one, so *)
(* a failing item does not keep later items from being processed.         *)
C12_BatchResults ==
    bres.op = "batch" =>
        /\ bres.err = NoErr
        /\ Len(bres.results) = Len(bres.items)
        /\ \A i \in 1..Len(bres.results) :
              /\ bres.results[i].URL = bres.items[i].url
              /\ (bres.results[i].Short = "") # (bres.results[i].Error = "")
        /\ OneByOne(bres.before, bres.items, bres.results, now) = bres.after

(* A batch whose first item failed and whose second was stored has returned *)
C12_Witness ==
    /\ bres.op = "batch"
    /\ Len(bres.items) = 2
    /\ bres.results[1].Error # ""
    /\ bres.results[2].Short # ""
    /\ bres.after.store # bres.before.store

----------------------------------------------------------------------------
(* Properties of the limiter, continued *)

(* The stored timestamps of id that lie strictly after the cutoff *)
StoredAfter(id, cutoff) ==
    {i \in DOMAIN GetWindow(window, id, now) :
        Seconds(GetWindow(window, id, now)[i]) > cutoff}

(* C13: when Allow finds that the stored timestamps strictly after its    *)
(* time minus windowSize number maxRequests or more, it returns false at  *)
(* that step and writes nothing: the list and the key's time to live are *)
(* as before.                                                             *)
C13_RejectWritesNothing ==
    [][\A p \in Procs :
          (/\ AllowGetWindow(p)
           /\ Cardinality(StoredAfter(lreq[p].id, lreq[p].at - windowSize))
                  >= maxRequests)
          => /\ lpc'[p] = "idle"
             /\ lres'.id = lreq[p].id
             /\ lres'.verdict = "false"
             /\ window' = window]_vars

(* A call has been rejected and the list that made it so is still stored *)
C13_Witness ==
    /\ lres.verdict = "false"
    /\ lres.id \in DOMAIN window
    /\ Cardinality(StoredAfter(lres.id, now - windowSize)) >= maxRequests

(* h is among the handlers that ran *)
Ran(c, h) == \E i \in DOMAIN c.ran : c.ran[i] = h

(* C14: a request of the rate-limited group reaches its handler (Shorten,  *)
(* ShortenBatch, Redirect) only if Allow returned true for it, and then    *)
(* after the limiter; when Allow returned false the response is 429, when  *)
(* it returned an error 500, and in both the handler is not run.           *)
C14_AdmissionFirst ==
    lres.verdict # "none" =>
      \A h \in Handlers :
        LET c == Serve(Router(h), 1, NewContext, lres.verdict) IN
        /\ Ran(c, h) <=> lres.verdict = "true"
        /\ Ran(c, h) => \E i, j \in DOMAIN c.ran :
                            i < j /\ c.ran[i] = "RateLimit" /\ c.ran[j] = h
        /\ lres.verdict = "false" => c.status = 429
        /\ lres.verdict = "error" => c.status = 500

(* Allow has returned an error after having rejected a call: both *)
(* refusals have been served                                      *)
C14_Witness ==
    /\ lres.verdict = "error"
    /\ \E id \in Ids : hist.rejected[id]
    /\ Serve(Router("Redirect"), 1, NewContext, lres.verdict).aborted

(* C15: the count and the write of Allow are separate store calls, and the *)
(* verdict rests on the count alone: a call that found capacity returns    *)
(* true with its write, whatever other calls have stored since its read.   *)
(* So two concurrent calls of one identifier can both be admitted and more *)
(* than maxRequests requests admitted within one window (C15_Witness).     *)
C15_AdmittedOnStaleCount ==
    [][\A p \in Procs :
          (lpc[p] \in {"addGet", "addSet"} /\ lpc'[p] = "idle")
          => /\ lres'.id = lreq[p].id
             /\ lres'.verdict = "true"
             /\ window'[lreq[p].id].list = lreq[p].filtered]_vars

(* At one instant two calls of an identifier have been admitted, the later *)
(* to return on top of the first, and the list holds more than maxRequests *)
(* timestamps of the window                                                *)
C15_Witness ==
    /\ now = 0
    /\ lres.verdict = "true"
    /\ lres.soon
    /\ hist.overlap
    /\ Len(window[lres.id].list) > maxRequests

----------------------------------------------------------------------------
(* Properties of the allocation loop and of the filter *)

(* C16: a Shorten without alias makes at most maxAttempts = 10 attempts   *)
(* (draw, existence check).  It adopts the first candidate the store      *)
(* reports as not existing; another attempt follows an existing candidate *)
(* only while fewer than 10 are done; after the tenth existing candidate  *)
(* it fails with the generation error.  When it fails, by exhaustion or   *)
(* by a failed existence check, the call is over and the store, the cache *)
(* and the filter are unchanged.                                          *)
C16_AllocationLoop ==
    [][\A p \in Procs :
          (pc[p] = "generate" /\ <<pc[p], attempts[p]>> # <<pc'[p], attempts'[p]>>)
          => /\ attempts[p] < maxAttempts
             /\ \/ /\ pc'[p] = "create"
                   /\ req'[p].shortCode \in Codes \ DOMAIN store
                \/ /\ pc'[p] = "generate"
                   /\ store # EmptyMap
                   /\ attempts'[p] = attempts[p] + 1
                   /\ attempts'[p] < maxAttempts
                \/ /\ pc'[p] = "idle"
                   /\ \/ /\ reply'.err = Invalid("ERR_SHORT_CODE_GENERATION")
                         /\ attempts[p] + 1 = maxAttempts
                         /\ store # EmptyMap
                      \/ /\ reply'.err = Invalid("ERR_INTERNAL")
                         /\ "store.exists!" \in reply'.calls
                   /\ req'[p] = IdleReq
                   /\ attempts'[p] = 0
                   /\ UNCHANGED <<store, cache, bloomFilter>>]_vars

(* A Shorten without alias has failed after ten existing candidates *)
C16_Witness ==
    /\ reply.op = "shorten"
    /\ reply.err = Invalid("ERR_SHORT_CODE_GENERATION")
    /\ reply.calls = {"store.exists"}
    /\ store # EmptyMap

(* What GetOriginalURL returns for code c with an empty cache: the store's *)
(* answer (lines 206-216, 229)                                             *)
StoreAnswer(c, t) ==
    IF c \notin DOMAIN store THEN [err |-> NotFound, val |-> ""]
    ELSE IF IsExpired(store[c].ExpiresAt, t)
    THEN [err |-> Expired("ERR_EXPIRED"), val |-> ""]
    ELSE [err |-> NoErr, val |-> store[c].OriginalURL]

(* C17: a call of Shorten or GetOriginalURL during which a cache read or   *)
(* write failed returns what it returns with an empty cache whose writes   *)
(* are discarded: the lookup returns the store's answer for the code (or   *)
(* the error of a failed store read), Shorten returns the code of the      *)
(* record it stored; the cache is left as it was by the failed call.       *)
C17_CacheFailureTransparent ==
    [][\A p \in Procs :
          (pc[p] # "idle" /\ pc'[p] = "idle" /\ reply'.calls \cap CacheFailures # {})
          => IF reply'.op = "get"
             THEN /\ IF "store.get!" \in reply'.calls
                     THEN reply'.err = Invalid("ERR_INTERNAL")
                     ELSE /\ reply'.err = StoreAnswer(req[p].shortCode, now).err
                          /\ reply'.val = StoreAnswer(req[p].shortCode, now).val
                  /\ "cache.set" \notin reply'.calls => cache' = cache
             ELSE /\ reply'.err = NoErr
                  /\ reply'.val = req[p].shortCode
                  /\ req[p].shortCode \in DOMAIN store
                  /\ store[req[p].shortCode].OriginalURL = req[p].url
                  /\ cache' = cache]_vars

(* A lookup whose cache read and cache write both failed has returned the *)
(* stored URL                                                             *)
C17_Witness ==
    /\ reply.op = "get"
    /\ reply.err = NoErr
    /\ {"cache.get!", "cache.set!"} \subseteq reply.calls
    /\ cache # EmptyMap

----------------------------------------------------------------------------
(* Properties of a fleet of instances *)

(* GetOriginalURL (lines 195-229) of code c on instance i, run at once at *)
(* time t: the filter gate, the cache, the store                          *)
Lookup(i, c, t) ==
    IF ~BloomTest(bloomFilter[i], c) THEN [err |-> NotFound, val |-> ""]
    ELSE IF CacheHit(cache, c, t) THEN [err |-> NoErr, val |-> cache[c].url]
    ELSE StoreAnswer(c, t)

(* C18, as stated: the instances share the store and the cache, and a *)
(* lookup of a code has the same outcome on every instance.           *)
C18_SameOutcome ==
    \A c \in LookupCodes : \A i, j \in Instances :
        Lookup(i, c, now) = Lookup(j, c, now)

(* Without any restart, instance 2 has answered not-found for a code that *)
(* was issued and stored through instance 1, whose filter passes it       *)
C18_Witness ==
    /\ restarts = 0
    /\ \E c \in DOMAIN issued :
          /\ <<2, c>> \in missed
          /\ BloomTest(bloomFilter[1], c)
          /\ Lookup(1, c, now).err = NoErr

(* The bits of c are all set by codes stored since instance i restarted *)
FalsePositive(i, c) ==
    BloomHash(c) \subseteq UNION {BloomHash(d) : d \in DOMAIN store \ lost[i]}

(* C19: after a restart the instance's filter is empty and is not filled   *)
(* from the store.  For every code persisted before the restart, a lookup  *)
(* on the restarted instance returns not-found at the filter (unless the   *)
(* code is a false positive of codes stored since) although the store      *)
(* holds the record; and it stays so: a Shorten with that code as alias is *)
(* refused as a conflict and no insert of that code succeeds, so the code  *)
(* is not added to the filter again.                                       *)
C19_NeverRehydrated ==
    [][\A p \in Procs : \A c \in lost[inst[p]] :
          /\ (Begins /\ GetStart(p, c) /\ ~FalsePositive(inst[p], c))
             => /\ c \in DOMAIN store
                /\ pc'[p] = "idle"
                /\ reply' = Reply("get", NotFound, "", 301, {})
          /\ (pc[p] = "checkAlias" /\ req[p].shortCode = c /\ CheckAlias(p))
             => /\ reply'.err = Conflict("ERR_ALIAS_EXISTS")
                /\ bloomFilter' = bloomFilter
          /\ (pc[p] = "create" /\ req[p].shortCode = c /\ CreateURL(p))
             => bloomFilter' = bloomFilter]_vars

(* The one instance has restarted; since then its filter has turned away *)
(* the lookup of a code stored before, and the code's re-registration    *)
(* was refused as a conflict                                             *)
C19_Witness ==
    /\ inst = [p \in Procs |-> 1]
    /\ restarts = 1
    /\ bloomFilter[1] = {}
    /\ reply.err = Conflict("ERR_ALIAS_EXISTS")
    /\ \E c \in lost[1] : <<1, c>> \in missed /\ c \in DOMAIN store

----------------------------------------------------------------------------
(* Properties of the filter *)

(* C20: the filter changes only when a Shorten adds the code it has just  *)
(* inserted: the step that changes a filter is the insert of a code the   *)
(* store did not hold, by a call that goes on to succeed, and adds that   *)
(* code's bits to the filter of the call's instance; so the bits of every *)
(* filter are bits of stored codes.  A Shorten that fails (validation,    *)
(* conflict, generation failure, store error) fails before its insert has *)
(* succeeded, and its failing step changes neither store nor filter.      *)
C20_FilterFollowsStore ==
    [][/\ bloomFilter' # bloomFilter
          => \E p \in Procs :
               /\ pc[p] = "create"
               /\ req[p].shortCode \notin DOMAIN store
               /\ req[p].shortCode \in DOMAIN store'
               /\ bloomFilter' = [bloomFilter EXCEPT
                                    ![inst[p]] = @ \cup BloomHash(req[p].shortCode)]
               /\ pc'[p] = "idle" => reply'.err = NoErr
       /\ \A i \in Instances :
             bloomFilter'[i] \subseteq UNION {BloomHash(c) : c \in DOMAIN store'}
       /\ (/\ reply'.op = "shorten"
           /\ reply'.err # NoErr
           /\ Begins \/ \E p \in Procs : Returns(p, ShortenPcs))
          => /\ bloomFilter' = bloomFilter
             /\ store' = store
             /\ \A p \in Procs :
                   Returns(p, ShortenPcs)
                   => pc[p] # "cacheSet" /\ "store.insert" \notin ioLog[p]]_vars

(* A Shorten has failed at its insert while another code is stored and in *)
(* the filter                                                             *)
C20_Witness ==
    /\ reply.op = "shorten"
    /\ "store.insert!" \in reply.calls
    /\ Cardinality(DOMAIN store) = 1
    /\ \E c \in DOMAIN store : bloomFilter[1] = BloomHash(c)

----------------------------------------------------------------------------
(* Properties of expiry, clicks and the cache *)

(* C21, as stated: a cache entry written for a record that has an        *)
(* expiration is gone once the clock reaches the expiration, so no cache *)
(* hit serves a record whose expiration has passed.                      *)
C21_CacheNeverStale ==
    \A c \in DOMAIN cache :
        (CacheHit(cache, c, now) /\ c \in DOMAIN store /\ store[c].ExpiresAt # {})
        => Unexpired(store[c].ExpiresAt, now)

(* A lookup was answered from the cache with the URL of a record whose *)
(* expiration lies strictly in the past                                *)
C21_Witness ==
    /\ reply.op = "get"
    /\ reply.err = NoErr
    /\ reply.calls = {"cache.get"}
    /\ \E c \in DOMAIN store :
          /\ store[c].OriginalURL = reply.val
          /\ IsExpired(store[c].ExpiresAt, now)
          /\ CacheHit(cache, c, now)
          /\ \A d \in DOMAIN store : d # c => store[d].OriginalURL # reply.val

----------------------------------------------------------------------------
(* Properties of the limiter's window *)

(* C22, as stated: when Allow admits a call made at time `at`, the list   *)
(* it writes is the list stored until then, without the entries that are *)
(* not strictly after at - windowSize, followed by the call's timestamp;  *)
(* the key's time to live is windowSize + 10 s.                           *)
C22_WrittenWindow ==
    [][\A p \in Procs :
          (lpc[p] = "addSet" /\ AddToWindowSet(p))
          => LET r == lreq[p] IN
             /\ window'[r.id].list =
                   Append(Filtered(GetWindow(window, r.id, now), r.at - windowSize),
                          r.timestamp)
             /\ window'[r.id].exp = now + windowSize + Seconds(10)]_vars

(* A call that ran alone has been admitted, and the list it wrote does *)
(* not hold its timestamp                                              *)
C22_Witness ==
    /\ lres.verdict = "true"
    /\ ~hist.overlap
    /\ lstarted = 1
    /\ window[lres.id].list = <<>>

----------------------------------------------------------------------------
(* Shorten with a lifetime that has already elapsed *)

(* expires_in of zero and of minus one second; the request types put no *)
(* lower limit on the field                                              *)
ElapsedExpiresIns == {{0}, {-1}}

(* The service, called with no lifetime or with an elapsed one *)
NextElapsed ==
    \/ \E p \in Procs, u \in URLs, e \in ElapsedExpiresIns \cup {{}},
          a \in Codes \cup {""} :
           ShortenStart(p, u, e, a)
    \/ \E p \in Procs : CheckAlias(p)
    \/ \E p \in Procs : Generate(p)
    \/ \E p \in Procs : CreateURL(p)
    \/ \E p \in Procs : ShortenCacheSet(p)
    \/ \E p \in Procs, c \in LookupCodes : GetStart(p, c)
    \/ \E p \in Procs : CacheGet(p)
    \/ \E p \in Procs : StoreGet(p)
    \/ \E p \in Procs : GetCacheSet(p)
    \/ Tick

SpecElapsed == Init /\ [][NextElapsed]_vars

(* The insert of slot p goes through, for a record with an expiration *)
InsertsElapsed(p) ==
    /\ pc[p] = "create"
    /\ CreateURL(p)
    /\ req[p].expiresAt # {}
    /\ ~UniqueViolation(store, req[p].shortCode)

(* C23, as stated: Shorten with expires_in <= 0 succeeds once its insert *)
(* goes through: the record is stored with that expires_at, the code is  *)
(* in the filter, no cache entry is written; and every GetOriginalURL of *)
(* the code that begins after Shorten returned fails with the expired    *)
(* error.                                                                *)
C23_ElapsedLifetime ==
    [][\A p \in Procs :
          /\ InsertsElapsed(p)
             => LET c == req[p].shortCode IN
                /\ Returns(p, ShortenPcs)
                /\ reply'.err = NoErr /\ reply'.val = c
                /\ store'[c].ExpiresAt = req[p].expiresAt
                /\ store'[c].OriginalURL = req[p].url
                /\ BloomTest(bloomFilter'[inst[p]], c)
                /\ cache' = cache
          /\ (Returns(p, GetPcs) /\ req[p].known
                 /\ issued[req[p].shortCode].expiresAt # {})
             => reply'.err = Expired("ERR_EXPIRED")]_vars

(* A lookup of a code issued with expires_in = 0 has been answered with *)
(* the URL, from the store                                              *)
C23_Witness ==
    /\ reply.op = "get"
    /\ reply.err = NoErr
    /\ reply.calls = {"cache.get", "store.get"}
    /\ \E c \in DOMAIN issued :
          /\ issued[c].url = reply.val
          /\ issued[c].expiresAt = {now}
          /\ c \notin DOMAIN cache
          /\ \A d \in DOMAIN issued : d # c => issued[d].url # reply.val

----------------------------------------------------------------------------
(* The click emission: publishClickEvent, lines 232-251, starts a task   *)
(* that builds the event and calls publisher.PublishClickEvent with the  *)
(* context of the request.  The server ends that context when the        *)
(* handler, api.Redirect, has returned.                                  *)

(* Tasks dispatched for code c that have not run yet *)
Pending(c) == clicks[c] - emission.ran[c]

(* api.Redirect returns for a request whose task has not run: its context is done *)
CancelContext(c) ==
    /\ Pending(c) - emission.cancelled[c] > 0
    /\ emission' = [emission EXCEPT !.cancelled[c] = @ + 1]
    /\ UNCHANGED <<now, svars, lvars>>
    /\ UNCHANGED <<inst, lost, restarts, attempts, batch, bres, missed>>

(* lines 237-250: a task runs.  done: the context it passes is done; ok: *)
(* the publisher returns nil.  The error is dropped.                     *)
PublishClickEvent(c, done, ok) ==
    /\ Pending(c) > 0
    /\ IF done THEN emission.cancelled[c] > 0
               ELSE Pending(c) - emission.cancelled[c] > 0
    /\ emission' = [emission EXCEPT
                       !.ran[c] = @ + 1,
                       !.cancelled[c] = IF done THEN @ - 1 ELSE @,
                       !.log = @ \cup {[code |-> c, ctxDone |-> done, err |-> ~ok]}]
    /\ UNCHANGED <<now, svars, lvars>>
    /\ UNCHANGED <<inst, lost, restarts, attempts, batch, bres, missed>>

(* The codes and the URL of the lookups whose clicks are followed *)
ClickCodes == {"x"}
ClickURLs == {"http://a"}

(* Lookups with their failures, the clock, and the publish tasks *)
NextClicks ==
    \/ \E p \in Procs, u \in ClickURLs, e \in ExpiresIns, a \in ClickCodes :
           ShortenStart(p, u, e, a)
    \/ \E p \in Procs : CheckAlias(p)
    \/ \E p \in Procs : CreateURL(p)
    \/ \E p \in Procs : ShortenCacheSet(p)
    \/ \E p \in Procs, c \in LookupCodes : GetStart(p, c)
    \/ \E p \in Procs : CacheGet(p)
    \/ \E p \in Procs : StoreGet(p)
    \/ \E p \in Procs : GetCacheSet(p)
    \/ \E p \in Procs : CacheGetFail(p)
    \/ \E p \in Procs : StoreGetFail(p)
    \/ \E p \in Procs : GetCacheSetFail(p)
    \/ \E c \in LookupCodes : CancelContext(c)
    \/ \E c \in LookupCodes, done \in BOOLEAN, ok \in BOOLEAN :
           PublishClickEvent(c, done, ok)
    \/ Tick

SpecClicks == Init /\ [][NextClicks]_vars

(* C24: a GetOriginalURL that returns a URL, from the cache or after the  *)
(* store read, dispatches exactly one click event for its code; a call    *)
(* that fails (not found, expired, internal error) dispatches none, and   *)
(* nothing else dispatches one; a publish task that runs, failing or not, *)
(* leaves the reply, the store and the cache as they are.                 *)
C24_OneClickPerRedirect ==
    [][/\ \A p \in Procs :
             Returns(p, GetPcs)
             => IF reply'.err = NoErr
                THEN clicks' = [clicks EXCEPT ![req[p].shortCode] = @ + 1]
                ELSE clicks' = clicks
       /\ clicks' # clicks
             => \E p \in Procs : Returns(p, GetPcs) /\ reply'.err = NoErr
       /\ emission'.ran # emission.ran
             => UNCHANGED <<reply, store, cache, clicks>>]_vars

(* One lookup of x returned its URL and its publish failed; a later *)
(* lookup of x failed with the expired error and dispatched nothing *)
C24_Witness ==
    /\ reply.op = "get"
    /\ reply.err = Expired("ERR_EXPIRED")
    /\ clicks["x"] = 1
    /\ emission.ran["x"] = 1
    /\ \E e \in emission.log : e.code = "x" /\ e.err

(* C25, as stated: the emission is a background task, and ending the    *)
(* request context after GetOriginalURL returned does not reach it:     *)
(* every publish runs with a context that is not done.                  *)
C25_EmissionDetached == \A e \in emission.log : ~e.ctxDone

(* The lookup returned the URL, its request context ended, and then its *)
(* publish ran with that context and failed                             *)
C25_Witness ==
    /\ reply.op = "get"
    /\ reply.err = NoErr
    /\ clicks["x"] = 1
    /\ emission.log = {[code |-> "x", ctxDone |-> TRUE, err |-> TRUE]}

----------------------------------------------------------------------------
(* Agreement of cache and store *)

(* Every cache entry, live or not, is the mapping of a store record *)
CacheAgrees(ch, st) ==
    \A c \in DOMAIN ch : c \in DOMAIN st /\ st[c].OriginalURL = ch[c].url

(* C26: in every reachable state each cache entry of code c with URL u  *)
(* has a store record with short_code c and original_url u, and every   *)
(* GetOriginalURL(c) that succeeds returns the URL of that record, also *)
(* when Shorten calls race for one alias with different URLs.           *)
C26_CacheStoreAgreement ==
    [][/\ CacheAgrees(cache, store) /\ CacheAgrees(cache', store')
       /\ \A p \in Procs :
             (Returns(p, GetPcs) /\ reply'.err = NoErr)
             => /\ req[p].shortCode \in DOMAIN store
                /\ reply'.val = store[req[p].shortCode].OriginalURL]_vars

(* The loser of a race for alias x is about to insert another URL while *)
(* the winner's entry is in the cache                                   *)
C26_Witness ==
    \E p \in Procs :
        /\ pc[p] = "create"
        /\ req[p].shortCode = "x"
        /\ CacheHit(cache, "x", now)
        /\ cache["x"].url # req[p].url
        /\ store["x"].OriginalURL = cache["x"].url

----------------------------------------------------------------------------
(* Concurrent calls of the limiter *)

(* How many entries of list are ts *)
Count(list, ts) == Cardinality({i \in 1..Len(list) : list[i] = ts})

(* C27, as stated: a write-back of Allow drops no timestamp of the       *)
(* window: every timestamp stored when the write happens and not yet     *)
(* older than windowSize is stored afterwards as often as before, and    *)
(* the writer's own timestamp once more.                                 *)
C27_NoLostTimestamp ==
    [][\A p \in Procs :
          (lpc[p] = "addSet" /\ AddToWindowSet(p))
          => LET r == lreq[p]
                 stored == GetWindow(window, r.id, now)
                 written == window'[r.id].list
             IN \A ts \in 0..Format(MaxLimiterTime) :
                   Parse(ts) > now - windowSize
                   => Count(written, ts) >=
                        Count(stored, ts) + (IF ts = r.timestamp THEN 1 ELSE 0)]_vars

(* Two calls for ip1 made at the same instant have both been admitted, *)
(* and the stored window holds one timestamp                           *)
C27_Witness ==
    /\ now = 0
    /\ lstarted = 2
    /\ \A p \in Procs : lpc[p] = "idle"
    /\ hist.overlap
    /\ hist.admit["ip1"] = 0 /\ hist.admit["ip2"] = -1
    /\ ~hist.rejected["ip1"]
    /\ Len(window["ip1"].list) = 1

(* C28, as stated: a check of Allow made at t', less than windowSize     *)
(* after the time t of an admitted call of the same identifier whose     *)
(* timestamp is in the list it reads, counts that timestamp as inside    *)
(* the window: what is stored stands for t also when t has a sub-second  *)
(* part.                                                                 *)
C28_SubSecondCounted ==
    [][\A p \in Procs :
          LET r == lreq[p]
              t == hist.admit[r.id]
              timestamps == GetWindow(window, r.id, now)
          IN (/\ lpc[p] = "getWindow" /\ AllowGetWindow(p)
              /\ t >= 0 /\ r.at >= t /\ r.at - t < windowSize
              /\ Count(timestamps, Format(t)) > 0)
             => ValidCount(timestamps, r.at - windowSize) >= 1]_vars

(* A call at 0.5 s was admitted; the call at 1.0 s, made after it had *)
(* returned, was admitted as well and wrote a window without it      *)
C28_Witness ==
    /\ now = 2
    /\ lres.verdict = "true"
    /\ lres.soon
    /\ ~hist.overlap
    /\ hist.admit[lres.id] = 2
    /\ window[lres.id].list = <<1>>

----------------------------------------------------------------------------
(* Aliases of expired records *)

(* The record of code c is in the store and its expires_at is in the past *)
ExpiredRecord(c) == c \in DOMAIN store /\ IsExpired(store[c].ExpiresAt, now)

(* C29, as stated: once the record of an alias has expired, the alias   *)
(* check of a Shorten with that alias returns the conflict error, every *)
(* GetOriginalURL of it fails with the expired error when it returns    *)
(* from its cache read or its store read, and no step changes or        *)
(* removes a record of the store.                                       *)
C29_AliasStaysTaken ==
    [][/\ \A p \in Procs :
             ExpiredRecord(req[p].shortCode)
             => /\ (pc[p] = "checkAlias" /\ CheckAlias(p))
                   => /\ Returns(p, ShortenPcs)
                      /\ reply'.err = Conflict("ERR_ALIAS_EXISTS")
                /\ Returns(p, {"cacheGet", "storeGet"})
                   => reply'.err = Expired("ERR_EXPIRED")
       /\ \A c \in DOMAIN store : c \in DOMAIN store' /\ store'[c] = store[c]]_vars

(* A Shorten with the alias of an expired record has been refused with *)
(* the conflict error while the cache still answers for that alias     *)
C29_Witness ==
    /\ reply.op = "shorten"
    /\ reply.err = Conflict("ERR_ALIAS_EXISTS")
    /\ reply.calls = {"store.exists"}
    /\ \E c \in DOMAIN store : ExpiredRecord(c) /\ CacheHit(cache, c, now)
    /\ Cardinality(DOMAIN store) = 1

----------------------------------------------------------------------------
(* Independence of the identifiers *)

(* The store with the keys of every identifier but id removed *)
OnlyKey(w, id) == [k \in DOMAIN w \cap {id} |-> w[k]]

(* C30: a step of Allow(a) leaves the stored list and the TTL of every   *)
(* other identifier as they are, and what it reads, and with it its      *)
(* verdict, is what it would be were the keys of the other identifiers   *)
(* not there.                                                            *)
C30_WindowsIndependent ==
    [][\A p \in Procs :
          (lpc[p] # "idle" /\ lpc'[p] # lpc[p])
          => LET a == lreq[p].id
                 alone == GetWindow(OnlyKey(window, a), a, now)
             IN /\ \A b \in Ids \ {a} :
                      /\ b \in DOMAIN window' <=> b \in DOMAIN window
                      /\ b \in DOMAIN window => window'[b] = window[b]
                /\ lpc[p] = "getWindow"
                   => (lpc'[p] = "idle"
                         <=> ValidCount(alone, lreq[p].at - windowSize) >= maxRequests)
                /\ lpc[p] = "addGet"
                   => lreq'[p].filtered =
                        Filtered(Append(alone, lreq[p].timestamp), now - windowSize)
                /\ lpc[p] = "addSet"
                   => /\ DOMAIN window' = DOMAIN window \cup {a}
                      /\ lres'.id = a /\ lres'.verdict = "true"]_vars

(* ip2 has been admitted while the window of ip1 is full, and both *)
(* windows are stored                                              *)
C30_Witness ==
    /\ lres.id = "ip2"
    /\ lres.verdict = "true"
    /\ DOMAIN window = Ids
    /\ ValidCount(GetWindow(window, "ip1", now), now - windowSize) >= maxRequests
    /\ hist.rejected["ip1"]

====
